---- MODULE Spec2Model ----
(***************************************************************************)
(* Metering pipeline of the MCP TypeScript docs server.                    *)
(*                                                                         *)
(* Two entry paths run the costed tool search_mcp_docs:                    *)
(*   - the OAuth path, McpTypescriptDocsMCP's tool handler (server.ts):    *)
(*     checkBalance -> AI.autorag().aiSearch -> output security ->         *)
(*     consumeTokensWithRetry -> return;                                   *)
(*   - the API-key path, handleApiKeyRequest -> handleHTTPTransport ->     *)
(*     handleToolsCall -> executeSearchMcpDocsTool (api-key-handler.ts).   *)
(*                                                                         *)
(* tokenConsumption.ts (checkBalance, consumeTokensWithRetry) is imported  *)
(* by server.ts but is not part of the sources at hand; the balance store, *)
(* the ledger and the retry driver are modelled from sections 4.2 - 4.4    *)
(* and 6 of the specification.                                             *)
(*                                                                         *)
(* Every await of a handler is a suspension point: one action of the model *)
(* is the code that runs between two awaits of one invocation.             *)
(*                                                                         *)
(* The API-key path keeps one McpServer per user in serverCache, an        *)
(* LRUCache (api-key-handler.ts); its get and set are modelled on their    *)
(* own, with the readings of Date.now() they stamp entries with.           *)
(***************************************************************************)
EXTENDS Integers, Sequences, FiniteSets, TLC

\* ------------------------------------------------------------------ bounds
NumInv == 2          \* handler invocations in one behaviour
MaxBalance == 2      \* largest initial balance of a user
NumCalls == 3        \* direct consume calls in one ledger behaviour
MaxCapacity == 2     \* largest maxSize an LRUCache is constructed with
MaxClock == 2        \* largest reading of Date.now()
MaxHeaderLen == 2    \* longest Authorization header, in pieces
NumLogin == 2        \* browser requests to /authorize and /callback in one behaviour

\* --------------------------------------------------------- program constants
TOOL_COST == 1       \* const TOOL_COST = 1
MaxAttempts == 3     \* the retry policy's maximum attempt count

Users == {"u1", "u2"}
NoUser == "none"     \* this.props?.userId is undefined
Invs == 1..NumInv
Keys == {1, 2}        \* idempotency keys of the direct consume calls
Costs == {1, 2}       \* costs of the direct consume calls
CacheKeys == 1..(MaxCapacity + 1)   \* user ids the server cache is keyed by
Logins == 1..NumLogin
States == {"s1", "s2"}   \* state parameters: btoa(JSON.stringify(oauthReqInfo))

VARIABLES
    balance,        \* balances table: identity -> balance
    events,         \* usage-events table: set of committed UsageEvents
    initBalance,    \* the balances the behaviour started from
    aiBound,        \* env.AI is configured
    uuidCount,      \* number of UUIDs crypto.randomUUID() has returned
    pc,             \* per invocation: the await it is suspended at
    path,           \* per invocation: "oauth" | "apikey"
    userId,         \* per invocation: the authenticated identity
    req,            \* per invocation: the logical request it delivers
    actionId,       \* per invocation: const actionId = crypto.randomUUID()
    balanceCheck,   \* per invocation: what checkBalance returned
    attempts,       \* per invocation: consume attempts that failed transiently
    landed,         \* per invocation: a failed attempt had written to the store
    lastConsume,    \* per invocation: result kind of the last consume attempt
    opCalls,        \* per invocation: times the AI search was invoked
    opResult,       \* per invocation: how the AI search ended
    consumeCalls,   \* per invocation: times consume was called
    debits,         \* per invocation: balance debits its consume calls applied
    outcome,        \* per invocation: what the handler returned
    consumeLog,     \* per invocation: key and result of each consume attempt
    cancelled,      \* per invocation: "no", or the await during which the caller went away
    ledgerLog,      \* direct consume calls made so far, with their results
    cache,          \* LRUCache.cache: entries {key, value, lastAccessed} in insertion order
    maxSize,        \* LRUCache.maxSize
    now,            \* the last reading of Date.now()
    everSet,        \* keys set() has been called with
    lastOp,         \* the last cache operation and the state it found
    dualTransport,  \* the build: index.ts serves /sse as well as /mcp
    route,          \* the request fetch() is given and the handler it hands it to
    isDeleted,      \* users table: is_deleted of each user's row
    http,           \* per API-key request: pathname, method, response
    kvBound,        \* env.USER_SESSIONS is configured
    kv,             \* USER_SESSIONS: the keys pkce:<state> that hold a verifier
    login,          \* per browser request to /authorize or /callback: its progress
    rpc             \* the body handleHTTPTransport is given and the response it returns

storeVars == <<balance, events, initBalance>>
invVars == <<aiBound, uuidCount, pc, path, userId, req, actionId, balanceCheck,
             attempts, landed, lastConsume, opCalls, opResult, consumeCalls,
             debits, outcome, consumeLog, cancelled>>
vars == <<balance, events, initBalance, aiBound, uuidCount, pc, path, userId,
          req, actionId, balanceCheck, attempts, landed, lastConsume, opCalls,
          opResult, consumeCalls, debits, outcome, consumeLog, cancelled,
          ledgerLog,
          cache, maxSize, now, everSet, lastOp,
          dualTransport, route, isDeleted, http, kvBound, kv, login, rpc>>
cacheVars == <<cache, maxSize, now, everSet, lastOp>>
webVars == <<dualTransport, route, isDeleted, http, kvBound, kv, login, rpc>>

\* ================================================================ the store
\* UsageEvent rows of the key committed under idempotency key k.
EventsOf(ev, k) == {e \in ev : e.key = k}

\* A balance check that sets the cost aside when the balance covers it.
checkBalanceReserves(bal, u, cost) ==
    [sufficient |-> bal[u] >= cost, currentBalance |-> bal[u],
     balance |-> IF bal[u] >= cost THEN [bal EXCEPT ![u] = bal[u] - cost] ELSE bal]

\* checkBalance(db, userId, cost): a point read; sufficient = currentBalance >= cost.
\* Returns the result and the balances as the read leaves them.
checkBalance(bal, u, cost) ==
    [sufficient |-> bal[u] >= cost, currentBalance |-> bal[u], balance |-> bal]

\* consume without the idempotency lookup: every call debits again.
consumeTokensNoReplay(bal, ev, u, cost, k) ==
    IF bal[u] < cost
    THEN [kind |-> "InsufficientBalance", newBalance |-> bal[u],
          balance |-> bal, events |-> ev]
    ELSE [kind |-> "Committed", newBalance |-> bal[u] - cost,
          balance |-> [bal EXCEPT ![u] = bal[u] - cost],
          events |-> ev \cup {[key |-> k, user |-> u, cost |-> cost,
                               newBalance |-> bal[u] - cost]}]

\* consume without the commit-time balance check: the debit is unconditional.
consumeTokensNoFunds(bal, ev, u, cost, k) ==
    IF EventsOf(ev, k) # {}
    THEN [kind |-> "AlreadyConsumed",
          newBalance |-> (CHOOSE e \in EventsOf(ev, k) : TRUE).newBalance,
          balance |-> bal, events |-> ev]
    ELSE [kind |-> "Committed", newBalance |-> bal[u] - cost,
          balance |-> [bal EXCEPT ![u] = bal[u] - cost],
          events |-> ev \cup {[key |-> k, user |-> u, cost |-> cost,
                               newBalance |-> bal[u] - cost]}]

\* consume replaying a committed key with the balance as it is now.
consumeTokensStaleReplay(bal, ev, u, cost, k) ==
    IF EventsOf(ev, k) # {}
    THEN [kind |-> "AlreadyConsumed", newBalance |-> bal[u],
          balance |-> bal, events |-> ev]
    ELSE IF bal[u] < cost
    THEN [kind |-> "InsufficientBalance", newBalance |-> bal[u],
          balance |-> bal, events |-> ev]
    ELSE [kind |-> "Committed", newBalance |-> bal[u] - cost,
          balance |-> [bal EXCEPT ![u] = bal[u] - cost],
          events |-> ev \cup {[key |-> k, user |-> u, cost |-> cost,
                               newBalance |-> bal[u] - cost]}]

\* consume recording the UsageEvent of a call it refuses.
consumeTokensLogsRefusal(bal, ev, u, cost, k) ==
    IF EventsOf(ev, k) # {}
    THEN [kind |-> "AlreadyConsumed",
          newBalance |-> (CHOOSE e \in EventsOf(ev, k) : TRUE).newBalance,
          balance |-> bal, events |-> ev]
    ELSE IF bal[u] < cost
    THEN [kind |-> "InsufficientBalance", newBalance |-> bal[u],
          balance |-> bal,
          events |-> ev \cup {[key |-> k, user |-> u, cost |-> cost,
                               newBalance |-> bal[u]]}]
    ELSE [kind |-> "Committed", newBalance |-> bal[u] - cost,
          balance |-> [bal EXCEPT ![u] = bal[u] - cost],
          events |-> ev \cup {[key |-> k, user |-> u, cost |-> cost,
                               newBalance |-> bal[u] - cost]}]

\* consume(identity, cost, idempotencyKey): one atomic transaction of the store.
\* Returns the result and the store as the transaction leaves it.
consumeTokens(bal, ev, u, cost, k) ==
    IF EventsOf(ev, k) # {}
    THEN [kind |-> "AlreadyConsumed",
          newBalance |-> (CHOOSE e \in EventsOf(ev, k) : TRUE).newBalance,
          balance |-> bal, events |-> ev]
    ELSE IF bal[u] < cost
    THEN [kind |-> "InsufficientBalance", newBalance |-> bal[u],
          balance |-> bal, events |-> ev]
    ELSE [kind |-> "Committed", newBalance |-> bal[u] - cost,
          balance |-> [bal EXCEPT ![u] = bal[u] - cost],
          events |-> ev \cup {[key |-> k, user |-> u, cost |-> cost,
                               newBalance |-> bal[u] - cost]}]

\* A consume result that is a success to the caller.
IsSuccessKind(kind) == kind \in {"Committed", "AlreadyConsumed"}


\* ================================================= outcomes of the handlers
NoOutcome == [kind |-> "none", isError |-> FALSE, answer |-> FALSE, msg |-> ""]

\* return { content: [{ text: processed }], structuredContent: output }
AnswerOutcome == [kind |-> "answer", isError |-> FALSE, answer |-> TRUE, msg |-> ""]

\* return { content: [formatInsufficientTokensError(...)], isError: true }
InsufficientOutcome ==
    [kind |-> "insufficient_tokens", isError |-> TRUE, answer |-> FALSE, msg |-> ""]

\* Messages the AI search rejects with, one per branch of the catch block.
AiErrors == {"AutoRAG instance not ready", "documentation is indexing", "network timeout"}

\* errorMessage.includes('AI Search instance not found') || includes('AutoRAG instance')
IncludesInstance(msg) == msg = "AutoRAG instance not ready"

\* errorMessage.includes('indexing')
IncludesIndexing(msg) == msg = "documentation is indexing"

\* The catch block of the tool handler: every throw of the try block ends here.
CatchOutcome(msg) ==
    IF IncludesInstance(msg)
    THEN [kind |-> "instance_not_found", isError |-> TRUE, answer |-> FALSE, msg |-> ""]
    ELSE IF IncludesIndexing(msg)
    THEN [kind |-> "still_indexing", isError |-> TRUE, answer |-> FALSE, msg |-> ""]
    ELSE [kind |-> "failed_to_search", isError |-> TRUE, answer |-> FALSE, msg |-> msg]

\* ======================================================= the OAuth handler
\* The handler goes on whatever checkBalance reported.
ProceedsAlways(bc) == TRUE

\* if (!balanceCheck.sufficient) return insufficient-tokens error
Proceeds(bc) == bc.sufficient

\* The search answer is billed without looking at what validateOutput said.
AfterSearchUnvalidated(r) == IF r \in AiErrors THEN "done" ELSE "committing"

\* A failed search sends the handler back to the start, to search again.
AfterSearchStartsOver(r) == IF r = "ok" THEN "committing" ELSE "checking"

\* The handler bills whatever the search returned.
AfterSearchAlwaysCommit(r) == "committing"

\* aiSearch resolved and validateOutput passed: go on to step 5, else the catch block.
AfterSearch(r) == IF r = "ok" THEN "committing" ELSE "done"

\* A fresh key at every consume call.
CommitKeyFreshUUID(i) == actionId[i] + consumeCalls[i]

\* Each consume attempt carries a key of its own.
CommitKeyPerAttempt(i) == actionId[i] + NumInv * attempts[i]

\* The idempotency key consumeTokensWithRetry is given: the actionId minted on entry.
CommitKey(i) == actionId[i]

\* The answer is delivered although the commit failed.
CommitFailedDelivers(msg) == AnswerOutcome

\* consumeTokensWithRetry threw: the return of step 6 is skipped, the catch block
\* answers.
CommitFailed(msg) == CatchOutcome(msg)

\* withRetry giving up one attempt late.
withRetryOneMore(failed) == IF failed > MaxAttempts THEN "RetryExhausted" ELSE "retry"

\* withRetry after `failed` attempts have ended in TransientStoreError: try again,
\* or give up with RetryExhausted once the attempt limit is reached.
withRetry(failed) == IF failed >= MaxAttempts THEN "RetryExhausted" ELSE "retry"

\* withRetry trying again after a refusal too.
RetriesAfterRefusal(kind) == kind \in {"TransientStoreError", "InsufficientBalance"}

\* withRetry makes another attempt only after an attempt that ended in
\* TransientStoreError; any other result goes back to the handler at once.
Retries(kind) == kind = "TransientStoreError"

\* The handler stops at the next await once its caller has gone.
ObservesSignalAborts(i) == cancelled[i] # "no"

\* async ({ query }) => ...: the callback takes the tool arguments only; the
\* request's abort signal (the second argument) is not read anywhere in it.
ObservesSignal(i) == FALSE

\* Invocations are numbered in the order they arrive.
Arrives(i) == pc[i] = "idle" /\ (IF i = 1 THEN TRUE ELSE pc[i - 1] # "idle")

\* The logical request an arriving invocation delivers: a new one (named after the
\* invocation), or a client retry / duplicate delivery of an earlier one of user u.
Delivers(i, u, r) ==
    IF r = i THEN TRUE
    ELSE r < i /\ u # NoUser /\ req[r] = r /\ userId[r] = u

\* async ({ query }) => { ... }: entry of the handler up to the await of checkBalance.
OAuthInvoke(i, u, r) ==
    /\ Arrives(i)
    /\ Delivers(i, u, r)
    /\ path' = [path EXCEPT ![i] = "oauth"]
    /\ userId' = [userId EXCEPT ![i] = u]
    /\ req' = [req EXCEPT ![i] = r]
    /\ uuidCount' = uuidCount + 1
    /\ actionId' = [actionId EXCEPT ![i] = uuidCount + 1]
    /\ IF u = NoUser
       THEN /\ pc' = [pc EXCEPT ![i] = "done"]
            /\ outcome' = [outcome EXCEPT ![i] =
                   CatchOutcome("User ID not found in authentication context")]
       ELSE /\ pc' = [pc EXCEPT ![i] = "checking"]
            /\ UNCHANGED outcome
    /\ UNCHANGED <<webVars, cacheVars, consumeLog, cancelled, storeVars, aiBound, balanceCheck, attempts, landed, lastConsume,
                   opCalls, opResult, consumeCalls, debits, ledgerLog>>

\* checkBalance settles: steps 2 - 4 of the handler up to the await of aiSearch.
CheckBalanceReturn(i, readOk) ==
    /\ pc[i] = "checking"
    /\ IF ~readOk
       THEN /\ pc' = [pc EXCEPT ![i] = "done"]
            /\ outcome' = [outcome EXCEPT ![i] = CatchOutcome("BalanceUnavailable")]
            /\ UNCHANGED <<balance, balanceCheck, opCalls>>
       ELSE LET bc == checkBalance(balance, userId[i], TOOL_COST) IN
            /\ balance' = bc.balance
            /\ balanceCheck' = [balanceCheck EXCEPT ![i] =
                   [checked |-> TRUE, sufficient |-> bc.sufficient,
                    covers |-> bc.currentBalance >= TOOL_COST]]
            /\ IF ~Proceeds(bc)
               THEN /\ pc' = [pc EXCEPT ![i] = "done"]
                    /\ outcome' = [outcome EXCEPT ![i] = InsufficientOutcome]
                    /\ UNCHANGED opCalls
               ELSE IF ~aiBound
               THEN /\ pc' = [pc EXCEPT ![i] = "done"]
                    /\ outcome' = [outcome EXCEPT ![i] =
                           CatchOutcome("Workers AI binding not configured")]
                    /\ UNCHANGED opCalls
               ELSE /\ pc' = [pc EXCEPT ![i] = "calling"]
                    /\ opCalls' = [opCalls EXCEPT ![i] = @ + 1]
                    /\ UNCHANGED outcome
    /\ UNCHANGED <<webVars, cacheVars, consumeLog, cancelled, events, initBalance, aiBound, uuidCount, path, userId, req, actionId,
                   attempts, landed, lastConsume, opResult, consumeCalls, debits,
                   ledgerLog>>

\* aiSearch settles: step 4.5 (sanitize, redact, validate) up to the await of
\* consumeTokensWithRetry, or the catch block.
AiSearchReturn(i, r) ==
    /\ pc[i] = "calling"
    /\ path[i] = "oauth"
    /\ opResult' = [opResult EXCEPT ![i] = r]
    /\ pc' = [pc EXCEPT ![i] = IF ObservesSignal(i) THEN "done" ELSE AfterSearch(r)]
    /\ outcome' = [outcome EXCEPT ![i] =
           IF ObservesSignal(i) THEN CatchOutcome("This operation was aborted")
           ELSE IF r = "ok" THEN NoOutcome
           ELSE IF r = "invalid_output" THEN CatchOutcome("Output validation failed")
           ELSE CatchOutcome(r)]
    /\ UNCHANGED <<webVars, cacheVars, consumeLog, cancelled, storeVars, aiBound, uuidCount, path, userId, req, actionId,
                   balanceCheck, attempts, landed, lastConsume, opCalls,
                   consumeCalls, debits, ledgerLog>>

\* One attempt of consumeTokensWithRetry, then (when it returns or throws) steps 5 - 6
\* of the handler or its catch block.
\*   "processed":   the store ran the transaction and the result arrived;
\*   "lost_before": TransientStoreError, nothing written;
\*   "lost_after":  TransientStoreError perceived although the write had landed.
ConsumeAttempt(i, mode) ==
    /\ pc[i] = "committing"
    /\ LET u == userId[i]
           r == consumeTokens(balance, events, u, TOOL_COST, CommitKey(i))
           wrote == IF r.balance[u] < balance[u] THEN 1 ELSE 0
           failed == attempts[i] + 1
           kind == IF mode = "processed" THEN r.kind ELSE "TransientStoreError"
       IN
       /\ mode = "lost_after" => r.kind = "Committed"
       /\ consumeCalls' = [consumeCalls EXCEPT ![i] = @ + 1]
       /\ IF mode = "lost_before"
          THEN UNCHANGED <<balance, events, debits>>
          ELSE /\ balance' = r.balance
               /\ events' = r.events
               /\ debits' = [debits EXCEPT ![i] = @ + wrote]
       /\ landed' = [landed EXCEPT ![i] = @ \/ mode = "lost_after"]
       /\ consumeLog' = [consumeLog EXCEPT ![i] =
              Append(@, [key |-> CommitKey(i), kind |-> kind])]
       /\ lastConsume' = [lastConsume EXCEPT ![i] = kind]
       /\ IF ~Retries(kind)
          THEN /\ pc' = [pc EXCEPT ![i] = "done"]
               /\ outcome' = [outcome EXCEPT ![i] =
                      IF IsSuccessKind(kind) THEN AnswerOutcome
                      ELSE CommitFailed("InsufficientBalance")]
               /\ UNCHANGED attempts
          ELSE /\ attempts' = [attempts EXCEPT ![i] = failed]
               /\ IF withRetry(failed) = "RetryExhausted"
                  THEN /\ pc' = [pc EXCEPT ![i] = "done"]
                       /\ outcome' = [outcome EXCEPT ![i] = CommitFailed("RetryExhausted")]
                  ELSE UNCHANGED <<pc, outcome>>
    /\ UNCHANGED <<webVars, cacheVars, cancelled, initBalance, aiBound, uuidCount, path, userId, req, actionId,
                   balanceCheck, opCalls, opResult, ledgerLog>>

\* The caller of invocation i goes away (connection dropped, request cancelled)
\* while the AI search or the commit is in flight.  The handler is not told.
Cancel(i) ==
    /\ pc[i] \in {"calling", "committing"}
    /\ path[i] = "oauth"
    /\ cancelled[i] = "no"
    /\ cancelled' = [cancelled EXCEPT ![i] = pc[i]]
    /\ UNCHANGED <<webVars, cacheVars, storeVars, aiBound, uuidCount, pc, path, userId, req,
                   actionId, balanceCheck, attempts, landed, lastConsume, opCalls,
                   opResult, consumeCalls, debits, outcome, consumeLog, ledgerLog>>

\* ====================================================== the API-key handler
\* handleApiKeyRequest for a request that authenticates as user u (validateApiKey and
\* getUserById both return) and is a tools/call of search_mcp_docs on /mcp:
\* handleHTTPTransport -> handleToolsCall -> executeSearchMcpDocsTool, up to the
\* await of aiSearch.
ApiKeyRequest(i, u, r) ==
    /\ Arrives(i)
    /\ Delivers(i, u, r)
    /\ path' = [path EXCEPT ![i] = "apikey"]
    /\ req' = [req EXCEPT ![i] = r]
    /\ userId' = [userId EXCEPT ![i] = u]
    /\ IF ~aiBound
       THEN /\ pc' = [pc EXCEPT ![i] = "done"]
            /\ outcome' = [outcome EXCEPT ![i] =
                   CatchOutcome("Workers AI binding not configured")]
            /\ UNCHANGED opCalls
       ELSE /\ pc' = [pc EXCEPT ![i] = "calling"]
            /\ opCalls' = [opCalls EXCEPT ![i] = @ + 1]
            /\ UNCHANGED outcome
    /\ UNCHANGED <<webVars, cacheVars, consumeLog, cancelled, storeVars, aiBound, uuidCount, actionId, balanceCheck, attempts,
                   landed, lastConsume, opResult, consumeCalls, debits, ledgerLog>>

\* A tool that answers from the cached server when there is one, whatever the
\* search returned.
executeSearchCachedAnswer(hit, r) ==
    IF hit \/ r = "ok" THEN AnswerOutcome ELSE CatchOutcome(r)

\* executeSearchMcpDocsTool(userId, args, env): what the tool returns once aiSearch
\* has settled.  handleToolsCall is given the server that getOrCreateServer
\* returned (hit: it came from the cache) and does not use it.
executeSearchMcpDocsTool(hit, r) ==
    IF r = "ok" THEN AnswerOutcome ELSE CatchOutcome(r)

\* aiSearch settles in executeSearchMcpDocsTool: return the answer, or the catch block.
ApiSearchReturn(i, r) ==
    /\ pc[i] = "calling"
    /\ path[i] = "apikey"
    /\ opResult' = [opResult EXCEPT ![i] = r]
    /\ pc' = [pc EXCEPT ![i] = "done"]
    /\ outcome' = [outcome EXCEPT ![i] = executeSearchMcpDocsTool(http[i].hit, r)]
    /\ http' = [http EXCEPT ![i].status = 200]
    /\ UNCHANGED <<rpc, dualTransport, route, isDeleted, kvBound, kv, login,
                   cacheVars, consumeLog, cancelled, storeVars, aiBound, uuidCount, path, userId, req, actionId,
                   balanceCheck, attempts, landed, lastConsume, opCalls,
                   consumeCalls, debits, ledgerLog>>

\* ============================================================ the router
\* A string is modelled as the sequence of the pieces that matter to the router:
\* "Bearer ", "wtyk_", and "x" for any other text.
Pieces == {"Bearer ", "wtyk_", "x"}

RECURSIVE StringsUpTo(_)
StringsUpTo(n) ==
    IF n = 0 THEN {<<>>}
    ELSE StringsUpTo(n - 1) \cup
         {Append(h, p) : h \in {g \in StringsUpTo(n - 1) : Len(g) = n - 1}, p \in Pieces}

\* request.headers.get("Authorization"): null, or a string
NoHeader == [present |-> FALSE, value |-> <<>>]
Headers == {NoHeader} \cup {[present |-> TRUE, value |-> h] : h \in StringsUpTo(MaxHeaderLen)}

OAuthEndpoints == {"/authorize", "/callback", "/token", "/register"}
WellKnown == {"/.well-known/oauth-protected-resource"}
Pathnames == {"/mcp", "/sse"} \cup OAuthEndpoints \cup WellKnown

\* String.prototype.replace with a string pattern: the first occurrence goes.
RECURSIVE replace(_, _)
replace(str, pat) ==
    IF str = <<>> THEN <<>>
    ELSE IF Head(str) = pat THEN Tail(str)
    ELSE <<Head(str)>> \o replace(Tail(str), pat)

startsWith(str, prefix) == Len(str) > 0 /\ Head(str) = prefix

\* The MCP transport endpoints of the build.
McpEndpoints(dual) == IF dual THEN {"/sse", "/mcp"} ELSE {"/mcp"}

\* A router that looks at the Authorization header alone.
isApiKeyRequestAnyPath(pathname, authHeader, dual) ==
    IF ~authHeader.present \/ authHeader.value = <<>> THEN FALSE
    ELSE startsWith(replace(authHeader.value, "Bearer "), "wtyk_")

\* isApiKeyRequest(pathname, authHeader)
isApiKeyRequest(pathname, authHeader, dual) ==
    IF pathname \notin McpEndpoints(dual) THEN FALSE
    ELSE IF ~authHeader.present \/ authHeader.value = <<>> THEN FALSE
    ELSE startsWith(replace(authHeader.value, "Bearer "), "wtyk_")

\* fetch(request, env, ctx): the handler the request is handed to.
fetch(pathname, authHeader, dual) ==
    IF dual /\ pathname \in WellKnown THEN "metadata"
    ELSE IF isApiKeyRequest(pathname, authHeader, dual) THEN "apikey"
    ELSE "oauth"

NoRoute == [pathname |-> "/mcp", authHeader |-> NoHeader, handler |-> "none"]

\* The worker routes the request it was given.
Fetch ==
    /\ route.handler = "none"
    /\ route' = [route EXCEPT !.handler = fetch(route.pathname, route.authHeader, dualTransport)]
    /\ UNCHANGED <<rpc, dualTransport, isDeleted, http, kvBound, kv, login,
                   cacheVars, storeVars, invVars, ledgerLog>>

\* ======================================================= the server cache
\* LRUCache<K, V>: this.cache is a Map, which iterates in insertion order and keeps
\* the position of a key that is set again.  An entry is {key, value, lastAccessed};
\* the cached value (the McpServer) plays no part in what is kept or evicted.
has(c, k) == \E n \in 1..Len(c) : c[n].key = k

\* The entry evictLRU would end with if it compared with <=: the last of the
\* entries with the smallest lastAccessed.
OldestIndexLastTie(c) ==
    CHOOSE n \in 1..Len(c) :
        \A m \in 1..Len(c) :
            \/ c[m].lastAccessed > c[n].lastAccessed
            \/ c[m].lastAccessed = c[n].lastAccessed /\ m <= n

\* The entry the loop of evictLRU ends with: entry.lastAccessed < oldestTime is
\* strict, so among the entries with the smallest lastAccessed the first in
\* iteration order stays the candidate.
OldestIndex(c) ==
    CHOOSE n \in 1..Len(c) :
        \A m \in 1..Len(c) :
            \/ c[m].lastAccessed > c[n].lastAccessed
            \/ c[m].lastAccessed = c[n].lastAccessed /\ m >= n

\* evictLRU(): this.cache.delete(oldestKey)
evictLRU(c) ==
    IF Len(c) = 0 THEN c
    ELSE [n \in 1..(Len(c) - 1) |-> IF n < OldestIndex(c) THEN c[n] ELSE c[n + 1]]

\* entry.value of the entry of key k.
valueOf(c, k) == c[CHOOSE n \in 1..Len(c) : c[n].key = k].value

\* get(key) at clock reading t: a hit stamps the entry with Date.now().
get(c, k, t) ==
    [n \in 1..Len(c) |-> IF c[n].key = k THEN [c[n] EXCEPT !.lastAccessed = t] ELSE c[n]]

\* set without the eviction step.
setNoEvict(c, k, v, t) ==
    IF has(c, k)
    THEN [n \in 1..Len(c) |-> IF c[n].key = k THEN [c[n] EXCEPT !.value = v, !.lastAccessed = t] ELSE c[n]]
    ELSE Append(c, [key |-> k, value |-> v, lastAccessed |-> t])

\* set that evicts whenever the cache is full, also for a key it holds.
setEvictsWhenFull(c, k, v, t) ==
    LET c1 == IF Len(c) >= maxSize THEN evictLRU(c) ELSE c IN
    IF has(c1, k)
    THEN [n \in 1..Len(c1) |-> IF c1[n].key = k THEN [c1[n] EXCEPT !.value = v, !.lastAccessed = t] ELSE c1[n]]
    ELSE Append(c1, [key |-> k, value |-> v, lastAccessed |-> t])

\* set(key, value) at clock reading t: evict when full and the key is new, then
\* this.cache.set(key, {value, lastAccessed: Date.now()}).
set(c, k, v, t) ==
    LET c1 == IF Len(c) >= maxSize /\ ~has(c, k) THEN evictLRU(c) ELSE c IN
    IF has(c1, k)
    THEN [n \in 1..Len(c1) |-> IF c1[n].key = k THEN [c1[n] EXCEPT !.value = v, !.lastAccessed = t] ELSE c1[n]]
    ELSE Append(c1, [key |-> k, value |-> v, lastAccessed |-> t])

\* The readings Date.now() can return next: the clock does not go back, and two
\* readings in a row can be equal.
Readings == {t \in now..(now + 1) : t <= MaxClock}

NoOp == [op |-> "none", key |-> 0, hit |-> FALSE, full |-> FALSE, guarded |-> 0]

\* The key of the last get that hit, while no mutating operation has followed it.
Guarded == IF lastOp.op = "get" THEN lastOp.guarded ELSE 0

\* serverCache.get(k).  guarded is the key of the hit no mutating operation has
\* followed yet: a miss changes nothing, a hit stamps its entry.
CacheGet(k, t) ==
    /\ t \in Readings
    /\ now' = t
    /\ cache' = get(cache, k, t)
    /\ lastOp' = [op |-> "get", key |-> k, hit |-> has(cache, k),
                  full |-> Len(cache) >= maxSize,
                  guarded |-> IF has(cache, k) THEN k ELSE Guarded]
    /\ UNCHANGED <<webVars, maxSize, everSet, storeVars, invVars, ledgerLog>>

\* serverCache.set(k, server), server being the McpServer of user k
CacheSet(k, t) ==
    /\ t \in Readings
    /\ now' = t
    /\ cache' = set(cache, k, k, t)
    /\ everSet' = everSet \cup {k}
    /\ lastOp' = [op |-> "set", key |-> k, hit |-> has(cache, k),
                  full |-> Len(cache) >= maxSize, guarded |-> Guarded]
    /\ UNCHANGED <<webVars, maxSize, storeVars, invVars, ledgerLog>>

\* const serverCache = new LRUCache(MAX_CACHED_SERVERS): an empty Map.
CacheIdle ==
    /\ cache = <<>>
    /\ now = 0
    /\ everSet = {}
    /\ lastOp = NoOp

\* ===================================================== the JSON-RPC transport
\* The body of a request as handleHTTPTransport sees it: text that request.json()
\* rejects, the JSON value null, or an object with these members ("none": absent).
\* params is absent, lacks a name, names search_mcp_docs with or without a usable
\* query, or names a tool the server does not have.
RpcIds == {"1", "2"}
RpcMethods == {"initialize", "ping", "tools/list", "tools/call", "resources/list", "none"}
RpcParams == {"none", "noName", "search_mcp_docs", "search_mcp_docs:noquery", "unknown_tool"}
NoBody == [parse |-> "fails", jsonrpc |-> "none", id |-> "none", method |-> "none",
           params |-> "none"]
Bodies ==
    {NoBody, [NoBody EXCEPT !.parse = "null"]} \cup
    {[parse |-> "object", jsonrpc |-> v, id |-> d, method |-> meth, params |-> p] :
        v \in {"2.0", "1.0", "none"}, d \in RpcIds \cup {"none"},
        meth \in RpcMethods, p \in RpcParams}

\* jsonRpcResponse(id, result, error): error = 0 stands for no error object.
jsonRpcResponse(id, error) ==
    [id |-> id, hasResult |-> error = 0, hasError |-> error # 0, code |-> error]

\* What the transport did with a request: the response, the handler the method
\* went to, and whether aiSearch is called to produce the result.
Handled(response, handler, executes) ==
    [response |-> response, handler |-> handler, executes |-> executes]

\* handleToolsCall that runs the search whatever tool is named.
handleToolsCallAnyTool(b) ==
    IF b.params \in {"none", "noName"}
    THEN Handled(jsonRpcResponse(b.id, -32602), "tools/call", FALSE)
    ELSE Handled(jsonRpcResponse(b.id, 0), "tools/call", b.params # "search_mcp_docs:noquery")

\* handleToolsCall(server, request, env, userId, userEmail).  executeSearchMcpDocsTool
\* turns every failure into a result with isError, so the call of a known tool
\* always answers with a result.
handleToolsCall(b) ==
    IF b.params \in {"none", "noName"}
    THEN Handled(jsonRpcResponse(b.id, -32602), "tools/call", FALSE)
    ELSE IF b.params \in {"search_mcp_docs", "search_mcp_docs:noquery"}
    THEN Handled(jsonRpcResponse(b.id, 0), "tools/call", b.params = "search_mcp_docs")
    ELSE Handled(jsonRpcResponse(b.id, -32601), "tools/call", FALSE)

\* handleHTTPTransport(server, request, env, userId, userEmail): request.json(), the
\* jsonrpc check, the switch on the method, and the catch block, which also takes
\* the TypeError of reading a member of null.
handleHTTPTransport(b) ==
    IF b.parse # "object" THEN Handled(jsonRpcResponse("error", -32700), "none", FALSE)
    ELSE IF b.jsonrpc # "2.0" THEN Handled(jsonRpcResponse(b.id, -32600), "none", FALSE)
    ELSE IF b.method \in {"initialize", "ping", "tools/list"}
    THEN Handled(jsonRpcResponse(b.id, 0), b.method, FALSE)
    ELSE IF b.method = "tools/call" THEN handleToolsCall(b)
    ELSE Handled(jsonRpcResponse(b.id, -32601), "none", FALSE)

NoResponse == Handled(jsonRpcResponse("none", 0), "pending", FALSE)
NoRpc == [body |-> NoBody, handled |-> NoResponse]

\* The transport answers the request it was given.
Dispatch ==
    /\ rpc.handled = NoResponse
    /\ rpc' = [rpc EXCEPT !.handled = handleHTTPTransport(rpc.body)]
    /\ UNCHANGED <<dualTransport, route, isDeleted, http, kvBound, kv, login,
                   cacheVars, storeVars, invVars, ledgerLog>>

\* ========================================== the API-key handler, step by step
\* The Authorization header of a request that carries an API key.
KeyedHeader == [present |-> TRUE, value |-> <<"Bearer ", "wtyk_">>]

\* A lookup that does not filter on is_deleted.
getUserByIdAnyRow(tbl, u) == TRUE

\* getUserById(db, userId): SELECT ... WHERE user_id = ? AND is_deleted = 0; TRUE when
\* a row came back.
getUserById(tbl, u) == ~tbl[u]

\* getOrCreateServer that builds and caches a new server on a hit as well.
getOrCreateServerAlwaysCreates(c, k, v, t) ==
    [hit |-> has(c, k), server |-> v, cache |-> set(c, k, v, t)]

\* getOrCreateServer whose insert acts on a lookup made before other requests
\* ran: it adds an entry whatever the Map holds by now.
getOrCreateServerStaleMiss(c, k, v, t) ==
    [hit |-> FALSE, server |-> v,
     cache |-> Append(c, [key |-> k, value |-> v, lastAccessed |-> t])]

\* getOrCreateServer(env, userId, email) at clock reading t: serverCache.get, and on a
\* miss a new McpServer v and serverCache.set.  The function has no await between
\* the get and the set, so it runs as one step.  A server is named after the
\* request that built it.
getOrCreateServer(c, k, v, t) ==
    IF has(c, k) THEN [hit |-> TRUE, server |-> valueOf(c, k), cache |-> get(c, k, t)]
    ELSE [hit |-> FALSE, server |-> v, cache |-> set(c, k, v, t)]

\* fetch hands a keyed request to handleApiKeyRequest, which extracts the key and
\* awaits validateApiKey.
HandleApiKeyRequest(i, pathname) ==
    /\ Arrives(i)
    /\ fetch(pathname, KeyedHeader, dualTransport) = "apikey"
    /\ path' = [path EXCEPT ![i] = "apikey"]
    /\ req' = [req EXCEPT ![i] = i]
    /\ http' = [http EXCEPT ![i].pathname = pathname]
    /\ pc' = [pc EXCEPT ![i] = "validating"]
    /\ UNCHANGED <<rpc, dualTransport, route, isDeleted, kvBound, kv, login, cacheVars,
                   storeVars, aiBound, uuidCount, userId, actionId, balanceCheck,
                   attempts, landed, lastConsume, opCalls, opResult, consumeCalls,
                   debits, outcome, consumeLog, cancelled, ledgerLog>>

\* validateApiKey settles with a user id or null: 401 on null, else await getUserById.
ValidateApiKeyReturn(i, u) ==
    /\ pc[i] = "validating"
    /\ IF u = NoUser
       THEN /\ http' = [http EXCEPT ![i].status = 401]
            /\ pc' = [pc EXCEPT ![i] = "done"]
            /\ UNCHANGED userId
       ELSE /\ userId' = [userId EXCEPT ![i] = u]
            /\ pc' = [pc EXCEPT ![i] = "lookup"]
            /\ UNCHANGED http
    /\ UNCHANGED <<rpc, dualTransport, route, isDeleted, kvBound, kv, login, cacheVars,
                   storeVars, aiBound, uuidCount, path, req, actionId, balanceCheck,
                   attempts, landed, lastConsume, opCalls, opResult, consumeCalls,
                   debits, outcome, consumeLog, cancelled, ledgerLog>>

\* getUserById settles.  A database error is thrown to the catch block (500); null
\* is answered with 404; with a row the handler gets the server from the cache (or
\* builds and caches it) and checks the pathname: /mcp goes on to
\* handleHTTPTransport and its await of request.json(), anything else is a 400.
GetUserByIdReturn(i, dbOk, t) ==
    /\ pc[i] = "lookup"
    /\ t \in Readings
    /\ IF ~dbOk
       THEN /\ http' = [http EXCEPT ![i].status = 500]
            /\ pc' = [pc EXCEPT ![i] = "done"]
            /\ UNCHANGED cacheVars
       ELSE IF ~getUserById(isDeleted, userId[i])
       THEN /\ http' = [http EXCEPT ![i].status = 404,
                                    ![i].rowLive = ~isDeleted[userId[i]]]
            /\ pc' = [pc EXCEPT ![i] = "done"]
            /\ UNCHANGED cacheVars
       ELSE LET lookup == getOrCreateServer(cache, userId[i], i, t) IN
            /\ cache' = lookup.cache
            /\ now' = t
            /\ everSet' = IF lookup.hit THEN everSet ELSE everSet \cup {userId[i]}
            /\ lastOp' = [op |-> IF lookup.hit THEN "get" ELSE "set",
                          key |-> userId[i], hit |-> lookup.hit,
                          full |-> Len(cache) >= maxSize,
                          guarded |-> IF lookup.hit THEN userId[i] ELSE Guarded]
            /\ UNCHANGED maxSize
            /\ http' = [http EXCEPT ![i].found = TRUE,
                                    ![i].rowLive = ~isDeleted[userId[i]],
                                    ![i].touched = TRUE,
                                    ![i].hit = lookup.hit,
                                    ![i].server = lookup.server,
                                    ![i].status = IF http[i].pathname = "/mcp" THEN 0 ELSE 400]
            /\ pc' = [pc EXCEPT ![i] = IF http[i].pathname = "/mcp" THEN "parsing" ELSE "done"]
    /\ UNCHANGED <<rpc, dualTransport, route, isDeleted, kvBound, kv, login,
                   storeVars, aiBound, uuidCount, path, userId, req, actionId,
                   balanceCheck, attempts, landed, lastConsume, opCalls, opResult,
                   consumeCalls, debits, outcome, consumeLog, cancelled, ledgerLog>>

\* The bodies of well-formed calls of a method.
CallOf(method, params) ==
    [parse |-> "object", jsonrpc |-> "2.0", id |-> "1", method |-> method,
     params |-> params]
Methods == {"tools/call", "ping"}

\* request.json() settles in handleHTTPTransport and the request is dispatched: a
\* tools/call of search_mcp_docs runs executeSearchMcpDocsTool up to the await of
\* aiSearch (or to its throw when env.AI is missing); every other request is
\* answered at once.  A JSON-RPC response is a 200.
HandleHTTPTransport(i, method) ==
    /\ pc[i] = "parsing"
    /\ LET handled == handleHTTPTransport(CallOf(method, "search_mcp_docs")) IN
       IF handled.executes /\ aiBound
       THEN /\ pc' = [pc EXCEPT ![i] = "calling"]
            /\ opCalls' = [opCalls EXCEPT ![i] = @ + 1]
            /\ http' = [http EXCEPT ![i].method = method]
            /\ UNCHANGED outcome
       ELSE /\ pc' = [pc EXCEPT ![i] = "done"]
            /\ http' = [http EXCEPT ![i].method = method, ![i].status = 200]
            /\ outcome' = [outcome EXCEPT ![i] =
                   IF handled.executes
                   THEN CatchOutcome("Workers AI binding not configured")
                   ELSE @]
            /\ UNCHANGED opCalls
    /\ UNCHANGED <<rpc, dualTransport, route, isDeleted, kvBound, kv, login, cacheVars,
                   storeVars, aiBound, uuidCount, path, userId, req, actionId,
                   balanceCheck, attempts, landed, lastConsume, opResult,
                   consumeCalls, debits, consumeLog, cancelled, ledgerLog>>

\* The account of user u is deleted: is_deleted = 1 on the row.
DeleteUser(u) ==
    /\ ~isDeleted[u]
    /\ isDeleted' = [isDeleted EXCEPT ![u] = TRUE]
    /\ UNCHANGED <<rpc, dualTransport, route, http, kvBound, kv, login, cacheVars,
                   storeVars, invVars, ledgerLog>>

\* ==================================================== the AuthKit handler
\* A browser request l is at rest with this response.
Respond(l, status, body) ==
    [login[l] EXCEPT !.pc = "done", !.status = status, !.body = body]

\* Browser requests are numbered in the order they arrive.
LoginArrives(l) ==
    login[l].pc = "idle" /\ (IF l = 1 THEN TRUE ELSE login[l - 1].pc # "idle")

\* A verifier store that keeps the verifier in the worker when there is no KV.
storeCodeVerifierAlways(bound, store, state) == store \cup {state}

\* storeCodeVerifier(env, state, verifier): the keys pkce:<state> of USER_SESSIONS
\* after the call; nothing is stored when USER_SESSIONS is not configured.
storeCodeVerifier(bound, store, state) ==
    IF ~bound THEN store ELSE store \cup {state}

\* A user lookup that does not filter on is_deleted.
getUserByEmailAnyRow(tbl, email) == email \in Users

\* getUserByEmail(db, email): SELECT ... WHERE email = ? AND is_deleted = 0; TRUE when
\* a row came back.
getUserByEmail(tbl, email) == email \in Users /\ ~tbl[email]

\* GET /authorize up to its first await that can fail the request.  s = "bad" is a
\* request parseAuthRequest finds no clientId in.  With USER_SESSIONS configured a
\* request without a workos_session cookie is sent to the login panel and one with
\* a cookie awaits the session record; without USER_SESSIONS the handler falls
\* back: it calls storeCodeVerifier and redirects to WorkOS with state s.
Authorize(l, s, cookie) ==
    /\ LoginArrives(l)
    /\ IF s = "bad"
       THEN /\ login' = [login EXCEPT ![l] = [Respond(l, 400, "Invalid request")
                                                 EXCEPT !.route = "authorize"]]
            /\ UNCHANGED kv
       ELSE IF kvBound /\ ~cookie
       THEN /\ login' = [login EXCEPT ![l] = [Respond(l, 302, "login")
                                                 EXCEPT !.route = "authorize", !.state = s,
                                                        !.cookie = cookie]]
            /\ UNCHANGED kv
       ELSE IF kvBound
       THEN /\ login' = [login EXCEPT ![l].pc = "session", ![l].route = "authorize",
                                      ![l].state = s, ![l].cookie = cookie]
            /\ UNCHANGED kv
       ELSE /\ kv' = storeCodeVerifier(kvBound, kv, s)
            /\ login' = [login EXCEPT ![l] = [Respond(l, 302, "workos")
                                                 EXCEPT !.route = "authorize", !.state = s,
                                                        !.cookie = cookie, !.issued = TRUE]]
    /\ UNCHANGED <<rpc, dualTransport, route, isDeleted, http, kvBound, cacheVars,
                   storeVars, invVars, ledgerLog>>

\* A session check that takes every record for live.
isExpiredNever(expiresAt, t) == FALSE

\* session.expires_at < Date.now()
isExpired(expiresAt, t) == expiresAt < t

\* USER_SESSIONS.get(workos_session:<token>) settles with no record (exists is
\* FALSE) or with a record that expires at expiresAt and names email: no record or
\* an expired one sends the browser to the login panel; a live one awaits
\* getUserByEmail.
SessionReturn(l, exists, expiresAt, email) ==
    /\ login[l].pc = "session"
    /\ LET rec == [read |-> TRUE, exists |-> exists,
                   expiresAt |-> IF exists THEN expiresAt ELSE 0] IN
       IF exists /\ ~isExpired(expiresAt, now)
       THEN login' = [login EXCEPT ![l].pc = "dbcheck", ![l].email = email,
                                   ![l].authed = TRUE, ![l].session = rec]
       ELSE login' = [login EXCEPT ![l] = [Respond(l, 302, "login") EXCEPT !.session = rec]]
    /\ UNCHANGED <<rpc, dualTransport, route, isDeleted, http, kvBound, kv, cacheVars,
                   storeVars, invVars, ledgerLog>>

\* getUserByEmail settles, in /authorize and in /callback alike: a database error
\* is thrown out of the handler (500), null is answered 403, and with a row
\* completeAuthorization is called and the success page returned.
GetUserByEmailReturn(l, dbOk) ==
    /\ login[l].pc = "dbcheck"
    /\ IF ~dbOk
       THEN login' = [login EXCEPT ![l] = Respond(l, 500, "Internal Server Error")]
       ELSE IF ~getUserByEmail(isDeleted, login[l].email)
       THEN login' = [login EXCEPT ![l] =
                [Respond(l, 403, "purchase required")
                    EXCEPT !.rowLive = login[l].email \in Users /\ ~isDeleted[login[l].email]]]
       ELSE login' = [login EXCEPT ![l] =
                [Respond(l, 200, "success")
                    EXCEPT !.granted = TRUE,
                           !.rowLive = login[l].email \in Users /\ ~isDeleted[login[l].email]]]
    /\ UNCHANGED <<rpc, dualTransport, route, isDeleted, http, kvBound, kv, cacheVars,
                   storeVars, invVars, ledgerLog>>

\* GET /callback up to the await in getCodeVerifier.  s = "bad" is a state without
\* a clientId, code = "none" a request without a code.  Without USER_SESSIONS
\* getCodeVerifier returns null at once.
Callback(l, s, code) ==
    /\ LoginArrives(l)
    /\ login' = [login EXCEPT ![l] =
           IF s = "bad" THEN [Respond(l, 400, "Invalid state") EXCEPT !.route = "callback"]
           ELSE IF code = "none"
           THEN [Respond(l, 400, "Missing code") EXCEPT !.route = "callback", !.state = s]
           ELSE IF ~kvBound
           THEN [Respond(l, 400, "Invalid or expired PKCE verification")
                    EXCEPT !.route = "callback", !.state = s, !.code = code]
           ELSE [login[l] EXCEPT !.pc = "kvget", !.route = "callback", !.state = s,
                                 !.code = code]]
    /\ UNCHANGED <<rpc, dualTransport, route, isDeleted, http, kvBound, kv, cacheVars,
                   storeVars, invVars, ledgerLog>>

\* USER_SESSIONS.get(pkce:<state>) settles in getCodeVerifier: null is answered 400,
\* a verifier awaits the delete.
KvGetReturn(l) ==
    /\ login[l].pc = "kvget"
    /\ IF login[l].state \in kv
       THEN login' = [login EXCEPT ![l].pc = "kvdelete"]
       ELSE login' = [login EXCEPT ![l] =
                Respond(l, 400, "Invalid or expired PKCE verification")]
    /\ UNCHANGED <<rpc, dualTransport, route, isDeleted, http, kvBound, kv, cacheVars,
                   storeVars, invVars, ledgerLog>>

\* USER_SESSIONS.delete(pkce:<state>) settles; getCodeVerifier returns the verifier
\* and the handler awaits authenticateWithCode.
KvDeleteReturn(l) ==
    /\ login[l].pc = "kvdelete"
    /\ kv' = kv \ {login[l].state}
    /\ login' = [login EXCEPT ![l].pc = "exchange", ![l].exchanged = TRUE]
    /\ UNCHANGED <<rpc, dualTransport, route, isDeleted, http, kvBound, cacheVars,
                   storeVars, invVars, ledgerLog>>

\* authenticateWithCode settles: it throws for a code WorkOS does not accept (400),
\* else it returns the user, whose email goes to getUserByEmail.
AuthenticateWithCodeReturn(l, email) ==
    /\ login[l].pc = "exchange"
    /\ IF login[l].code = "invalid"
       THEN login' = [login EXCEPT ![l] =
                Respond(l, 400, "Invalid authorization code or PKCE verification failed")]
       ELSE login' = [login EXCEPT ![l].pc = "dbcheck", ![l].email = email,
                                   ![l].authed = TRUE]
    /\ UNCHANGED <<rpc, dualTransport, route, isDeleted, http, kvBound, kv, cacheVars,
                   storeVars, invVars, ledgerLog>>

\* ============================================================ specification
\* Nothing has been routed, no API-key or browser request has arrived, every user
\* row is live.
NoHttp == [pathname |-> "none", method |-> "none", status |-> 0, touched |-> FALSE,
           hit |-> FALSE, found |-> FALSE, rowLive |-> FALSE, server |-> 0]
\* No session record has been read; a record is {expires_at, user_id, email}.
NoSession == [read |-> FALSE, exists |-> FALSE, expiresAt |-> 0]
NoLogin == [pc |-> "idle", route |-> "none", state |-> "none", code |-> "none",
            email |-> NoUser, status |-> 0, body |-> "none", rowLive |-> FALSE,
            granted |-> FALSE, exchanged |-> FALSE, issued |-> FALSE,
            authed |-> FALSE, cookie |-> FALSE, session |-> NoSession]
LoginIdle == [l \in Logins |-> NoLogin]

WebIdle ==
    /\ dualTransport = FALSE
    /\ route = NoRoute
    /\ isDeleted = [u \in Users |-> FALSE]
    /\ http = [i \in Invs |-> NoHttp]
    /\ kvBound = TRUE
    /\ kv = {}
    /\ login = LoginIdle
    /\ rpc = NoRpc

NoCheck == [checked |-> FALSE, sufficient |-> FALSE, covers |-> FALSE]

InvInit ==
    /\ uuidCount = 0
    /\ pc = [i \in Invs |-> "idle"]
    /\ path = [i \in Invs |-> "none"]
    /\ userId = [i \in Invs |-> NoUser]
    /\ req = [i \in Invs |-> 0]
    /\ actionId = [i \in Invs |-> 0]
    /\ balanceCheck = [i \in Invs |-> NoCheck]
    /\ attempts = [i \in Invs |-> 0]
    /\ landed = [i \in Invs |-> FALSE]
    /\ lastConsume = [i \in Invs |-> "none"]
    /\ opCalls = [i \in Invs |-> 0]
    /\ opResult = [i \in Invs |-> "none"]
    /\ consumeCalls = [i \in Invs |-> 0]
    /\ debits = [i \in Invs |-> 0]
    /\ outcome = [i \in Invs |-> NoOutcome]
    /\ consumeLog = [i \in Invs |-> <<>>]
    /\ cancelled = [i \in Invs |-> "no"]

\* The store before the first call: u1 starts with any balance, u2 with a full
\* one, and nothing has been billed yet.
StoreInit ==
    /\ balance \in [Users -> 0..MaxBalance]
    /\ balance["u2"] = MaxBalance
    /\ initBalance = balance
    /\ events = {}

Init ==
    /\ StoreInit
    /\ aiBound \in BOOLEAN
    /\ InvInit
    /\ ledgerLog = <<>>
    /\ CacheIdle
    /\ maxSize = MaxCapacity
    /\ WebIdle

\* Every invocation delivers a request of its own.
Next ==
    \/ \E i \in Invs, u \in Users \cup {NoUser} : OAuthInvoke(i, u, i)
    \/ \E i \in Invs, readOk \in BOOLEAN : CheckBalanceReturn(i, readOk)
    \/ \E i \in Invs, r \in {"ok", "invalid_output"} \cup AiErrors : AiSearchReturn(i, r)
    \/ \E i \in Invs, mode \in {"processed", "lost_before", "lost_after"} :
           ConsumeAttempt(i, mode)
    \/ \E i \in Invs, u \in Users : ApiKeyRequest(i, u, i)
    \/ \E i \in Invs, r \in {"ok"} \cup AiErrors : ApiSearchReturn(i, r)

Spec == Init /\ [][Next]_vars

\* =========================================== requests delivered more than once
\* As Next, and a client may send a request it has sent before (a retry, a
\* duplicate delivery): the handlers are invoked again with the same arguments.
RedeliveryNext ==
    \/ \E i \in Invs, u \in Users \cup {NoUser}, r \in Invs : OAuthInvoke(i, u, r)
    \/ \E i \in Invs, readOk \in BOOLEAN : CheckBalanceReturn(i, readOk)
    \/ \E i \in Invs, r \in {"ok", "invalid_output"} \cup AiErrors : AiSearchReturn(i, r)
    \/ \E i \in Invs, mode \in {"processed", "lost_before", "lost_after"} :
           ConsumeAttempt(i, mode)
    \/ \E i \in Invs, u \in Users, r \in Invs : ApiKeyRequest(i, u, r)
    \/ \E i \in Invs, r \in {"ok"} \cup AiErrors : ApiSearchReturn(i, r)

SpecRedelivery == Init /\ [][RedeliveryNext]_vars


\* ============================================ one invocation, a fair store
\* The OAuth handler serving a single invocation.  Every consume attempt settles
\* (the store answers or the call fails) and the backoff between attempts is
\* bounded, so an invocation waiting in consumeTokensWithRetry takes its next step.
RetryNext ==
    \/ \E u \in Users \cup {NoUser} : OAuthInvoke(1, u, 1)
    \/ \E readOk \in BOOLEAN : CheckBalanceReturn(1, readOk)
    \/ \E r \in {"ok", "invalid_output"} \cup AiErrors : AiSearchReturn(1, r)
    \/ \E mode \in {"processed", "lost_before", "lost_after"} : ConsumeAttempt(1, mode)

SpecRetry ==
    /\ Init
    /\ [][RetryNext]_vars
    /\ WF_vars(\E mode \in {"processed", "lost_before", "lost_after"} :
                   ConsumeAttempt(1, mode))

\* ================================================= callers that go away
\* The OAuth handler serving invocations of one identity, u1, whose callers may
\* go away mid-flight; u1 starts with the balance of one call.
CancelInit ==
    /\ Init
    /\ aiBound = TRUE
    /\ balance["u1"] = TOOL_COST

CancelNext ==
    \/ \E i \in Invs : OAuthInvoke(i, "u1", i)
    \/ \E i \in Invs, readOk \in BOOLEAN : CheckBalanceReturn(i, readOk)
    \/ \E i \in Invs, r \in {"ok", "invalid_output"} \cup AiErrors : AiSearchReturn(i, r)
    \/ \E i \in Invs, mode \in {"processed", "lost_before", "lost_after"} :
           ConsumeAttempt(i, mode)
    \/ \E i \in Invs : Cancel(i)

SpecCancel == CancelInit /\ [][CancelNext]_vars

\* ================================================== the ledger on its own
\* One consume(u, cost, k) call made directly against the ledger by any caller, in
\* any order; the store serialises the transactions of concurrent callers.
LedgerConsume(u, k, cost, mode) ==
    /\ Len(ledgerLog) < NumCalls
    /\ LET r == consumeTokens(balance, events, u, cost, k) IN
       /\ mode = "lost_after" => r.kind = "Committed"
       /\ IF mode = "lost_before"
          THEN UNCHANGED <<balance, events>>
          ELSE balance' = r.balance /\ events' = r.events
       /\ ledgerLog' = Append(ledgerLog,
              [user |-> u, key |-> k, cost |-> cost,
               replay |-> EventsOf(events, k) # {},
               kind |-> IF mode = "processed" THEN r.kind ELSE "TransientStoreError",
               newBalance |-> IF mode = "processed" THEN r.newBalance ELSE -1,
               balanceAfter |-> balance'[u],
               changed |-> balance' # balance \/ events' # events])
    /\ UNCHANGED <<webVars, cacheVars, initBalance, invVars>>

LedgerInit ==
    /\ StoreInit
    /\ aiBound = TRUE
    /\ InvInit
    /\ ledgerLog = <<>>
    /\ CacheIdle
    /\ maxSize = MaxCapacity
    /\ WebIdle

LedgerNext ==
    \E u \in Users, k \in Keys, cost \in Costs,
       mode \in {"processed", "lost_before", "lost_after"} : LedgerConsume(u, k, cost, mode)

SpecLedger == LedgerInit /\ [][LedgerNext]_vars

\* =================================================== the cache on its own
\* Any sequence of get and set on an LRUCache of any capacity 1..MaxCapacity.
CacheInit ==
    /\ StoreInit
    /\ balance["u1"] = MaxBalance
    /\ aiBound = TRUE
    /\ InvInit
    /\ ledgerLog = <<>>
    /\ CacheIdle
    /\ maxSize \in 1..MaxCapacity
    /\ WebIdle

CacheNext ==
    \/ \E k \in CacheKeys, t \in 0..MaxClock : CacheGet(k, t)
    \/ \E k \in CacheKeys, t \in 0..MaxClock : CacheSet(k, t)

SpecCache == CacheInit /\ [][CacheNext]_vars

\* ======================================================= the router on its own
\* One request with any pathname and any Authorization header, on either build.
RouteInit ==
    /\ StoreInit
    /\ balance["u1"] = MaxBalance
    /\ aiBound = TRUE
    /\ InvInit
    /\ ledgerLog = <<>>
    /\ CacheIdle
    /\ maxSize = MaxCapacity
    /\ dualTransport \in BOOLEAN
    /\ route \in {[pathname |-> p, authHeader |-> h, handler |-> "none"] :
                     p \in Pathnames, h \in Headers}
    /\ isDeleted = [u \in Users |-> FALSE]
    /\ http = [i \in Invs |-> NoHttp]
    /\ kvBound = TRUE
    /\ kv = {}
    /\ login = LoginIdle
    /\ rpc = NoRpc

RouteNext == Fetch

SpecRouting == RouteInit /\ [][RouteNext]_vars

\* ============================================ API-key requests, step by step
\* Keyed requests to the MCP endpoints of either build, interleaved with each other
\* and with account deletions, all within one reading of the clock.
ApiKeyInit ==
    /\ StoreInit
    /\ balance["u1"] = TOOL_COST
    /\ aiBound = TRUE
    /\ InvInit
    /\ ledgerLog = <<>>
    /\ CacheIdle
    /\ maxSize \in 1..MaxCapacity
    /\ dualTransport \in BOOLEAN
    /\ route = NoRoute
    /\ isDeleted = [u \in Users |-> FALSE]
    /\ http = [i \in Invs |-> NoHttp]
    /\ kvBound = TRUE
    /\ kv = {}
    /\ login = LoginIdle
    /\ rpc = NoRpc

ApiKeyNext ==
    \/ \E i \in Invs, p \in {"/mcp", "/sse"} : HandleApiKeyRequest(i, p)
    \/ \E i \in Invs, u \in Users \cup {NoUser} : ValidateApiKeyReturn(i, u)
    \/ \E i \in Invs, dbOk \in BOOLEAN : GetUserByIdReturn(i, dbOk, now)
    \/ \E i \in Invs, method \in Methods : HandleHTTPTransport(i, method)
    \/ \E i \in Invs, r \in {"ok", "network timeout"} : ApiSearchReturn(i, r)
    \/ \E u \in Users : DeleteUser(u)

SpecApiKey == ApiKeyInit /\ [][ApiKeyNext]_vars

\* ================================================= the OAuth login on its own
\* Browser requests to /authorize and /callback, interleaved with each other and
\* with the deletion of u1's account; the browser's email is u1's or one with no
\* row.  USER_SESSIONS is a KV namespace outside the worker: it is configured or
\* not, and holds whatever pkce: keys it holds.
LoginInit ==
    /\ StoreInit
    /\ balance["u1"] = MaxBalance
    /\ aiBound = TRUE
    /\ InvInit
    /\ ledgerLog = <<>>
    /\ CacheIdle
    /\ maxSize = MaxCapacity
    /\ dualTransport = FALSE
    /\ route = NoRoute
    /\ isDeleted = [u \in Users |-> FALSE]
    /\ http = [i \in Invs |-> NoHttp]
    /\ kvBound \in BOOLEAN
    /\ kv \in SUBSET States
    /\ ~kvBound => kv = {}
    /\ login = LoginIdle
    /\ rpc = NoRpc

LoginNext ==
    \/ \E l \in Logins, s \in States \cup {"bad"}, cookie \in BOOLEAN : Authorize(l, s, cookie)
    \/ \E l \in Logins, exists \in BOOLEAN, expiresAt \in {now - 1, now},
          email \in {"u1", NoUser} :
           SessionReturn(l, exists, expiresAt, email)
    \/ \E l \in Logins, dbOk \in BOOLEAN : GetUserByEmailReturn(l, dbOk)
    \/ \E l \in Logins, s \in States \cup {"bad"}, code \in {"none", "valid", "invalid"} :
           Callback(l, s, code)
    \/ \E l \in Logins : KvGetReturn(l)
    \/ \E l \in Logins : KvDeleteReturn(l)
    \/ \E l \in Logins, email \in {"u1", NoUser} : AuthenticateWithCodeReturn(l, email)
    \/ DeleteUser("u1")

SpecLogin == LoginInit /\ [][LoginNext]_vars

\* ============================================ the JSON-RPC transport on its own
\* One authenticated request with any body.
RpcInit ==
    /\ StoreInit
    /\ balance["u1"] = MaxBalance
    /\ aiBound = TRUE
    /\ InvInit
    /\ ledgerLog = <<>>
    /\ CacheIdle
    /\ maxSize = MaxCapacity
    /\ dualTransport = FALSE
    /\ route = NoRoute
    /\ isDeleted = [u \in Users |-> FALSE]
    /\ http = [i \in Invs |-> NoHttp]
    /\ kvBound = TRUE
    /\ kv = {}
    /\ login = LoginIdle
    /\ rpc \in {[body |-> b, handled |-> NoResponse] : b \in Bodies}

RpcNext == Dispatch

SpecRpc == RpcInit /\ [][RpcNext]_vars

\* ================================================================== claims
RECURSIVE SumCost(_)
SumCost(S) == IF S = {} THEN 0
              ELSE LET e == CHOOSE x \in S : TRUE IN e.cost + SumCost(S \ {e})

RECURSIVE SumDebits(_)
SumDebits(S) == IF S = {} THEN 0
                ELSE LET i == CHOOSE x \in S : TRUE IN debits[i] + SumDebits(S \ {i})

\* C1 (SpecLedger): at-most-once billing.  Whatever consume calls are made, in
\* whatever order, a key never has more than one UsageEvent; once a call with key k
\* has returned success there is exactly one; and every identity's balance has gone
\* down by exactly the cost of each of its UsageEvents, once.
C1_AtMostOnceBilling ==
    /\ \A k \in Keys : Cardinality(EventsOf(events, k)) <= 1
    /\ \A n \in DOMAIN ledgerLog :
           IsSuccessKind(ledgerLog[n].kind) =>
               Cardinality(EventsOf(events, ledgerLog[n].key)) = 1
    /\ \A u \in Users :
           initBalance[u] - balance[u] = SumCost({e \in events : e.user = u})

\* K = NumCalls calls of one identity with one key have all been made, the first
\* committed, a later one replayed.
C1_Witness ==
    /\ Len(ledgerLog) = NumCalls
    /\ \A n \in DOMAIN ledgerLog :
           ledgerLog[n].key = ledgerLog[1].key /\ ledgerLog[n].user = ledgerLog[1].user
    /\ ledgerLog[1].kind = "Committed"
    /\ ledgerLog[NumCalls].kind = "AlreadyConsumed"

\* C2: every invocation that returned the search answer had its caller's balance
\* checked and debited the caller exactly once, on the OAuth and on the API-key path.
C2_AnswerCheckedAndDebitedOnce ==
    \A i \in Invs :
        outcome[i].answer => balanceCheck[i].checked /\ debits[i] = 1

\* C3: the deliveries of one logical request (a request and its client retries or
\* duplicates) debit the identity at most once altogether.
C3_RedeliveryDebitsAtMostOnce ==
    \A r \in Invs : SumDebits({i \in Invs : req[i] = r}) <= 1

\* C4: no interleaving of invocations drives a balance below zero.
C4_BalanceNeverNegative == \A u \in Users : balance[u] >= 0

\* Two invocations of one identity whose balance covered one debit both passed the
\* advisory check; one was committed, the other refused at commit time.
C4_Witness ==
    \E i, j \in Invs :
        /\ i # j /\ userId[i] = userId[j] /\ userId[i] \in Users
        /\ initBalance[userId[i]] = TOOL_COST
        /\ balanceCheck[i].sufficient /\ balanceCheck[j].sufficient
        /\ debits[i] = 1
        /\ lastConsume[j] = "InsufficientBalance"
        /\ balance[userId[i]] = 0

\* C5 (SpecLedger): idempotent replay.  A consume call whose key already has a
\* committed UsageEvent leaves balances and UsageEvents as they were, and the result
\* it returns is a success carrying the newBalance of the commit of that key.
C5_IdempotentReplay ==
    \A n \in DOMAIN ledgerLog :
        ledgerLog[n].replay =>
            /\ ~ledgerLog[n].changed
            /\ ledgerLog[n].kind # "TransientStoreError" =>
                   /\ ledgerLog[n].kind = "AlreadyConsumed"
                   /\ \E m \in 1..(n - 1) :
                          /\ ledgerLog[m].key = ledgerLog[n].key
                          /\ ledgerLog[m].changed
                          /\ ledgerLog[n].newBalance = ledgerLog[m].balanceAfter

\* A key is replayed after another key has debited the same identity again: the
\* replay returns the first commit's newBalance, not the balance of the moment.
C5_Witness ==
    \E n \in DOMAIN ledgerLog :
        /\ ledgerLog[n].replay
        /\ ledgerLog[n].kind = "AlreadyConsumed"
        /\ ledgerLog[n].newBalance # balance[ledgerLog[n].user]
        /\ \E m \in 1..(n - 1) : ledgerLog[m].key = ledgerLog[n].key
                                 /\ ledgerLog[m].user = ledgerLog[n].user

\* C6: an invocation whose AI search failed never calls consume, debits nothing,
\* records no UsageEvent and ends with an error outcome.
C6_NoDebitOnCallFailure ==
    \A i \in Invs :
        opResult[i] \in AiErrors =>
            /\ pc[i] = "done"
            /\ outcome[i].isError
            /\ consumeCalls[i] = 0
            /\ debits[i] = 0
            /\ path[i] = "oauth" => EventsOf(events, actionId[i]) = {}

\* An OAuth invocation passed the balance check and its AI search then failed.
C6_Witness ==
    \E i \in Invs :
        /\ path[i] = "oauth"
        /\ balanceCheck[i].sufficient
        /\ opResult[i] \in AiErrors
        /\ pc[i] = "done"

\* C7: an invocation whose balance check reported a balance below the cost returns
\* the insufficient-tokens outcome, never invokes the AI search, never calls consume
\* and debits nothing.
C7_NoDebitOnInsufficientBalance ==
    \A i \in Invs :
        (balanceCheck[i].checked /\ ~balanceCheck[i].covers) =>
            /\ pc[i] = "done"
            /\ outcome[i] = InsufficientOutcome
            /\ opCalls[i] = 0
            /\ consumeCalls[i] = 0
            /\ debits[i] = 0

\* An invocation of an identity with balance 0 has been checked.
C7_Witness ==
    \E i \in Invs :
        /\ balanceCheck[i].checked
        /\ ~balanceCheck[i].covers
        /\ balance[userId[i]] = 0
        /\ pc[i] = "done"

\* C8: an invocation whose AI search succeeded and whose commit exhausted its
\* retries still returns the search answer to the caller.
C8_ExhaustedCommitReturnsResult ==
    \A i \in Invs :
        (pc[i] = "done" /\ opResult[i] = "ok" /\ attempts[i] >= MaxAttempts) =>
            outcome[i].answer

\* C9: each fresh key debits the cost once and each reused key debits nothing: an
\* identity's balance has gone down by the cost times the number of distinct
\* logical requests of its that were billed.
C9_ReusedKeyDebitsNothing ==
    \A u \in Users :
        initBalance[u] - balance[u] =
            TOOL_COST * Cardinality({req[i] : i \in {j \in Invs : userId[j] = u /\ debits[j] > 0}})

\* C10: a commit that succeeds after fewer than MaxAttempts transient failures
\* ends as a commit that succeeds at once: the answer is returned, the invocation
\* has debited once, its key has one UsageEvent of cost TOOL_COST, and the balances
\* are down by TOOL_COST per UsageEvent.
C10_RetryThenSuccess ==
    /\ \A i \in Invs :
           (pc[i] = "done" /\ IsSuccessKind(lastConsume[i])) =>
               /\ outcome[i] = AnswerOutcome
               /\ debits[i] = 1
               /\ \E e \in events :
                      /\ EventsOf(events, actionId[i]) = {e}
                      /\ e.user = userId[i]
                      /\ e.cost = TOOL_COST
    /\ \A u \in Users :
           initBalance[u] - balance[u] =
               TOOL_COST * Cardinality({e \in events : e.user = u})

\* A commit succeeded on its third attempt after a failed attempt had written.
C10_Witness ==
    \E i \in Invs :
        /\ pc[i] = "done"
        /\ attempts[i] = MaxAttempts - 1
        /\ landed[i]
        /\ lastConsume[i] = "AlreadyConsumed"
        /\ outcome[i] = AnswerOutcome

Min(a, b) == IF a <= b THEN a ELSE b

\* C11 (SpecCache): cache bound.  After any sequence of get and set on a cache of
\* capacity maxSize >= 1 the number of entries is at most maxSize, and it is the
\* number of distinct keys set so far until that reaches maxSize: setting
\* maxSize + 1 distinct keys leaves exactly maxSize entries.
C11_CacheBound ==
    /\ Len(cache) <= maxSize
    /\ Len(cache) = Min(maxSize, Cardinality(everSet))
    /\ \A n, m \in 1..Len(cache) : cache[n].key = cache[m].key => n = m

\* maxSize + 1 distinct keys have been set; the last set found the cache full.
C11_Witness ==
    /\ Cardinality(everSet) = maxSize + 1
    /\ Len(cache) = maxSize
    /\ lastOp.op = "set" /\ lastOp.full /\ ~lastOp.hit

\* C12 (SpecCache): true LRU.  In a full cache of capacity >= 2, a key read with
\* get (a hit) is still in the cache after the next mutating operation, when that
\* is a set of a key not in the cache, whatever non-decreasing clock readings the
\* operations got, equal readings included.
C12_GetProtectsFromEviction ==
    (/\ maxSize >= 2
     /\ lastOp.op = "set" /\ ~lastOp.hit /\ lastOp.full
     /\ lastOp.guarded # 0)
        => has(cache, lastOp.guarded)

\* The balance read of invocation i failed: it went through CHECKING and ended
\* there without a checkBalance result.
ReadFailed(i) ==
    /\ path[i] = "oauth" /\ userId[i] # NoUser
    /\ pc[i] = "done" /\ ~balanceCheck[i].checked

\* The outcome kinds a failed AI search is reported with.
OperationFailedKinds == {CatchOutcome(e).kind : e \in AiErrors}

\* C13: an invocation whose balance read failed ends with an outcome of a kind of
\* its own, neither the insufficient-balance outcome nor one a failed operation is
\* reported with; the AI search is never invoked and nothing is debited.
C13_BalanceUnavailableDistinct ==
    \A i \in Invs :
        ReadFailed(i) =>
            /\ outcome[i].isError
            /\ outcome[i].kind # InsufficientOutcome.kind
            /\ outcome[i].kind \notin OperationFailedKinds
            /\ opCalls[i] = 0 /\ consumeCalls[i] = 0 /\ debits[i] = 0

\* The failure kind a finished invocation ended with, "none" when it ended in
\* none of the four failures.
FailureOf(i) ==
    IF pc[i] # "done" THEN "none"
    ELSE IF ReadFailed(i) THEN "BalanceUnavailable"
    ELSE IF balanceCheck[i].checked /\ ~balanceCheck[i].sufficient THEN "InsufficientBalance"
    ELSE IF lastConsume[i] = "InsufficientBalance" THEN "InsufficientBalance"
    ELSE IF opResult[i] \in AiErrors \cup {"invalid_output"} THEN "OperationFailed"
    ELSE IF lastConsume[i] = "TransientStoreError" THEN "BillingUnresolved"
    ELSE "none"

\* C14: every finished invocation has returned an outcome, and two invocations
\* that ended in different failures among BalanceUnavailable, InsufficientBalance,
\* OperationFailed and BillingUnresolved returned outcomes of different kinds.
C14_FailureKindsDistinct ==
    /\ \A i \in Invs : pc[i] = "done" => outcome[i] # NoOutcome
    /\ \A i, j \in Invs :
           (/\ path[i] = "oauth" /\ path[j] = "oauth"
            /\ FailureOf(i) # "none" /\ FailureOf(j) # "none"
            /\ FailureOf(i) # FailureOf(j))
               => outcome[i].kind # outcome[j].kind

\* C15: per-invocation ordering of the OAuth handler.  The AI search has been
\* started only when the balance check of the invocation had returned sufficient;
\* consume has been called, and COMMITTING entered, only when the AI search of the
\* invocation had been started and had returned successfully.
C15_CheckCallCommitOrder ==
    \A i \in Invs :
        path[i] = "oauth" =>
            /\ (pc[i] = "calling" \/ opCalls[i] > 0) =>
                   balanceCheck[i].checked /\ balanceCheck[i].sufficient
            /\ (pc[i] = "committing" \/ consumeCalls[i] > 0) =>
                   /\ balanceCheck[i].checked /\ balanceCheck[i].sufficient
                   /\ opCalls[i] = 1 /\ opResult[i] = "ok"
            /\ pc[i] = "calling" => consumeCalls[i] = 0 /\ opResult[i] = "none"
            /\ pc[i] = "checking" => opCalls[i] = 0 /\ consumeCalls[i] = 0

\* An invocation was checked, searched, validated and committed.
C15_Witness ==
    \E i \in Invs :
        /\ path[i] = "oauth" /\ pc[i] = "done"
        /\ balanceCheck[i].sufficient /\ opResult[i] = "ok"
        /\ consumeCalls[i] > 0 /\ outcome[i] = AnswerOutcome

\* C16: within one invocation the idempotency key exists before COMMITTING begins
\* and every consume attempt of the invocation carries it: the key minted on entry,
\* the same at every attempt.
C16_OneKeyPerInvocation ==
    \A i \in Invs :
        /\ (pc[i] = "committing" \/ consumeLog[i] # <<>>) => actionId[i] \in 1..uuidCount
        /\ \A n \in DOMAIN consumeLog[i] : consumeLog[i][n].key = actionId[i]
        /\ \A j \in Invs : (i # j /\ actionId[i] # 0) => actionId[j] # actionId[i]

\* An invocation made MaxAttempts consume attempts.
C16_Witness ==
    \E i \in Invs : Len(consumeLog[i]) = MaxAttempts /\ pc[i] = "done"

\* C17: withRetry calls consume again only after a TransientStoreError.  Every
\* attempt but the last of an invocation ended in TransientStoreError, and after a
\* commit, an AlreadyConsumed replay or an InsufficientBalance refusal the
\* invocation is over: that result went back to the handler and no attempt follows.
C17_RetryOnlyAfterTransient ==
    \A i \in Invs :
        /\ \A n \in 1..(Len(consumeLog[i]) - 1) :
               consumeLog[i][n].kind = "TransientStoreError"
        /\ lastConsume[i] \in {"Committed", "AlreadyConsumed", "InsufficientBalance"} =>
               /\ pc[i] = "done"
               /\ consumeLog[i][Len(consumeLog[i])].kind = lastConsume[i]
               /\ outcome[i] = IF IsSuccessKind(lastConsume[i]) THEN AnswerOutcome
                               ELSE CatchOutcome("InsufficientBalance")

\* An invocation was refused at commit time after a transient failure, and one
\* committed at its first attempt.
C17_Witness ==
    /\ \E i \in Invs :
           /\ Len(consumeLog[i]) = 2
           /\ consumeLog[i][1].kind = "TransientStoreError"
           /\ consumeLog[i][2].kind = "InsufficientBalance"
    /\ \E i \in Invs : consumeLog[i] # <<>> /\ consumeLog[i][1].kind = "Committed"

\* C18 (SpecRetry): withRetry terminates.  Whatever the store does, failing
\* transiently forever included, an invocation makes at most MaxAttempts consume
\* attempts, after MaxAttempts transient failures it has given up with
\* RetryExhausted, and an invocation that entered COMMITTING leaves it.
C18_RetryTerminates ==
    /\ [](\A i \in Invs :
              /\ Len(consumeLog[i]) <= MaxAttempts
              /\ attempts[i] = MaxAttempts =>
                     pc[i] = "done" /\ outcome[i] = CatchOutcome("RetryExhausted"))
    /\ \A i \in Invs : (pc[i] = "committing") ~> (pc[i] = "done")

\* The store failed MaxAttempts times in a row and the driver gave up.
C18_Witness ==
    \E i \in Invs :
        /\ Len(consumeLog[i]) = MaxAttempts
        /\ \A n \in DOMAIN consumeLog[i] : consumeLog[i][n].kind = "TransientStoreError"
        /\ pc[i] = "done"

\* C19: the commit-time check is authoritative.  A consume that finds the balance
\* below the cost fails with InsufficientBalance, debits nothing and records no
\* UsageEvent, also when the advisory check of the invocation had passed; and of
\* the invocations racing on one identity at most floor(balance / cost) commit.
C19_CommitTimeCheckAuthoritative ==
    /\ \A i \in Invs :
           lastConsume[i] = "InsufficientBalance" =>
               /\ balanceCheck[i].sufficient
               /\ balance[userId[i]] < TOOL_COST
               /\ debits[i] = 0
               /\ EventsOf(events, actionId[i]) = {}
    /\ \A u \in Users :
           /\ Cardinality({e \in events : e.user = u}) * TOOL_COST <= initBalance[u]
           /\ Cardinality({i \in Invs : userId[i] = u /\ debits[i] > 0}) * TOOL_COST
                  <= initBalance[u]

\* More invocations of one identity passed the advisory check than its balance
\* could pay for: the identity started with the cost of one call, one invocation
\* committed and another, with a key of its own, was refused at commit time.
C19_Witness ==
    \E i, j \in Invs :
        /\ i # j /\ userId[i] = userId[j] /\ userId[i] \in Users
        /\ actionId[i] # actionId[j]
        /\ initBalance[userId[i]] = TOOL_COST
        /\ balanceCheck[i].sufficient /\ balanceCheck[j].sufficient
        /\ lastConsume[i] = "Committed"
        /\ lastConsume[j] = "InsufficientBalance"
        /\ Cardinality({e \in events : e.user = userId[i]}) = 1

C27_OperationInvokedAtMostOnce ==
    \A i \in Invs :
        /\ opCalls[i] <= 1
        /\ opResult[i] # "none" => opCalls[i] = 1 /\ pc[i] \in {"committing", "done"}
        /\ consumeCalls[i] > 0 => opCalls[i] = 1

\* One invocation's search failed, another's commit was retried; both are over.
C27_Witness ==
    \E i, j \in Invs :
        /\ pc[i] = "done" /\ opResult[i] \in AiErrors /\ opCalls[i] = 1
        /\ pc[j] = "done" /\ attempts[j] >= 1 /\ opCalls[j] = 1

\* C28: the balance check changes nothing.  The step in which checkBalance
\* settles, reporting sufficient, insufficient or failing, leaves every balance
\* and the set of UsageEvents as they were.
C28_CheckBalanceReadOnly ==
    [][\A i \in Invs :
           (pc[i] = "checking" /\ pc'[i] # "checking") =>
               balance' = balance /\ events' = events]_vars

\* Checks have reported sufficient and failed, and no balance has moved.
C28_Witness ==
    /\ \E i \in Invs : balanceCheck[i].checked /\ balanceCheck[i].sufficient
    /\ \E i \in Invs : ReadFailed(i)
    /\ balance = initBalance

\* C29: on the OAuth path the search answer is returned as a success only after
\* consumeTokensWithRetry returned without error for the invocation's actionId:
\* its last consume attempt was a success and the key has its UsageEvent.
C29_AnswerOnlyAfterCommit ==
    \A i \in Invs :
        (path[i] = "oauth" /\ outcome[i].answer) =>
            /\ pc[i] = "done"
            /\ consumeCalls[i] >= 1
            /\ IsSuccessKind(lastConsume[i])
            /\ \E e \in events : e.key = actionId[i] /\ e.user = userId[i]

\* An answer was returned after a commit, and another invocation whose search
\* succeeded got no answer because its commit failed.
C29_Witness ==
    \E i, j \in Invs :
        /\ path[i] = "oauth" /\ outcome[i] = AnswerOutcome
        /\ path[j] = "oauth" /\ pc[j] = "done" /\ opResult[j] = "ok"
        /\ ~outcome[j].answer

\* C30: an invocation whose search succeeded but whose processed text failed
\* validateOutput ends with an error outcome that does not carry the answer;
\* consume is never called and nothing is debited or recorded.
C30_InvalidOutputNotBilled ==
    \A i \in Invs :
        opResult[i] = "invalid_output" =>
            /\ pc[i] = "done"
            /\ outcome[i].isError /\ ~outcome[i].answer
            /\ consumeCalls[i] = 0 /\ debits[i] = 0
            /\ EventsOf(events, actionId[i]) = {}

\* Validation failed for an invocation of an identity whose balance is untouched.
C30_Witness ==
    \E i \in Invs :
        /\ opResult[i] = "invalid_output" /\ pc[i] = "done"
        /\ outcome[i] = CatchOutcome("Output validation failed")
        /\ balance[userId[i]] = initBalance[userId[i]]

\* C22: a request is handed to the API-key handler only if its path is an MCP
\* transport endpoint of the build and its Authorization header, with the first
\* "Bearer " removed, starts with "wtyk_"; a request to /authorize, /callback,
\* /token or /register is never handed to it, whatever its header.
C22_RoutingToApiKeyHandler ==
    /\ route.handler = "apikey" =>
           /\ route.pathname \in {"/mcp", "/sse"}
           /\ route.pathname = "/sse" => dualTransport
           /\ route.authHeader.present
           /\ \E n \in 1..Len(route.authHeader.value) :
                  /\ route.authHeader.value[n] = "wtyk_"
                  /\ \/ n = 1
                     \/ n = 2 /\ route.authHeader.value[1] = "Bearer "
    /\ route.pathname \in OAuthEndpoints => route.handler # "apikey"

\* Routed: a keyed request to /mcp went to the API-key handler, or a keyed request
\* to an OAuth endpoint went to the OAuth provider.
C22_Witness ==
    /\ route.authHeader.present
    /\ route.authHeader.value = <<"Bearer ", "wtyk_">>
    /\ \/ route.pathname = "/mcp" /\ route.handler = "apikey"
       \/ route.pathname = "/token" /\ route.handler = "oauth"

\* C21: the cache is never consulted for correctness.  What an API-key request
\* returns is what the same request returns when its lookup is a miss: a function
\* of how the search ended alone; and no API-key request, served from the cache or
\* not, debits a balance or records a UsageEvent.
C21_CacheNotConsultedForCorrectness ==
    /\ \A i \in Invs :
           path[i] = "apikey" =>
               /\ debits[i] = 0 /\ consumeCalls[i] = 0
               /\ opResult[i] # "none" =>
                      outcome[i] = IF opResult[i] = "ok" THEN AnswerOutcome
                                   ELSE CatchOutcome(opResult[i])
               /\ opResult[i] = "none" /\ opCalls[i] > 0 => outcome[i] = NoOutcome
    /\ balance = initBalance
    /\ events = {}

\* Two tool calls of one user whose search failed alike, one served by a server
\* from the cache and one by a server just built, returned the same outcome.
C21_Witness ==
    \E i, j \in Invs :
        /\ pc[i] = "done" /\ pc[j] = "done"
        /\ userId[i] = userId[j]
        /\ http[i].touched /\ http[j].touched
        /\ http[i].hit /\ ~http[j].hit
        /\ opResult[i] = "network timeout" /\ opResult[j] = "network timeout"
        /\ outcome[i] = outcome[j]

\* C23: a keyed request to /sse whose key validates to a live user is served as an
\* MCP request, as it is on /mcp: it is not answered 400 as an unsupported endpoint.
C23_SseServedWithApiKey ==
    \A i \in Invs :
        (http[i].pathname = "/sse" /\ http[i].found) =>
            /\ http[i].status # 400
            /\ pc[i] \in {"parsing", "calling", "done"}

\* C24 as stated: the cache is touched and a tool runs only after the key
\* validated and getUserById returned a live row; every other request is answered
\* 401 or 404 and leaves the cache alone.
C24_AuthThenCacheElse401Or404 ==
    \A i \in Invs :
        path[i] = "apikey" =>
            /\ (http[i].touched \/ opCalls[i] > 0) =>
                   userId[i] \in Users /\ http[i].found /\ http[i].rowLive
            /\ (pc[i] = "done" /\ ~http[i].found) =>
                   /\ http[i].status \in {401, 404}
                   /\ ~http[i].touched /\ opCalls[i] = 0

\* C24 (amended): the cache is touched and a tool runs only after the key
\* validated and getUserById returned a live row.  Every other request leaves the
\* cache alone and runs no tool; it is answered 401 when the key did not validate,
\* 404 when getUserById returned null, which it does for a deleted user also while
\* a server for that user is cached, and 500 when the lookup itself failed.
C24_AuthBeforeCacheAndTool ==
    \A i \in Invs :
        path[i] = "apikey" =>
            /\ (http[i].touched \/ opCalls[i] > 0) =>
                   userId[i] \in Users /\ http[i].found /\ http[i].rowLive
            /\ (pc[i] = "done" /\ ~http[i].found) =>
                   /\ http[i].status \in {401, 404, 500}
                   /\ http[i].status = 401 <=> userId[i] = NoUser
                   /\ http[i].status = 404 => ~http[i].rowLive
                   /\ ~http[i].touched /\ opCalls[i] = 0

\* A user was served and cached, then deleted, and a later request of that user
\* was answered 404 while the server is still in the cache.
C24_Witness ==
    \E i, j \in Invs :
        /\ http[j].touched /\ userId[j] = userId[i]
        /\ isDeleted[userId[i]]
        /\ has(cache, userId[i])
        /\ pc[i] = "done" /\ http[i].status = 404 /\ ~http[i].touched

\* C25 as stated: in /authorize and in /callback completeAuthorization is called
\* only after getUserByEmail returned a live row for the authenticated email;
\* every other request with an authenticated email is answered 403 and grants
\* nothing.
C25_GrantOnlyLiveUserElse403 ==
    \A l \in Logins :
        /\ login[l].granted =>
               login[l].authed /\ login[l].email \in Users /\ login[l].rowLive
        /\ (login[l].pc = "done" /\ login[l].authed /\ ~login[l].rowLive) =>
               login[l].status = 403 /\ ~login[l].granted

\* C25 (amended): completeAuthorization is called only after getUserByEmail
\* returned a live row for the authenticated email.  A request whose lookup
\* returned null (no row, or a deleted account) is answered 403, one whose lookup
\* threw is answered 500, and neither grants anything.
C25_GrantOnlyLiveUser ==
    \A l \in Logins :
        /\ login[l].granted =>
               login[l].authed /\ login[l].email \in Users /\ login[l].rowLive
        /\ (login[l].pc = "done" /\ login[l].authed /\ ~login[l].rowLive) =>
               /\ login[l].status \in {403, 500}
               /\ ~login[l].granted
        /\ login[l].status = 403 => login[l].authed /\ ~login[l].rowLive

\* One browser was granted authorization for u1; after u1's account was deleted
\* another arrived with u1's email and was answered 403.
C25_Witness ==
    \E l, k \in Logins :
        /\ login[l].granted /\ login[l].email = "u1" /\ login[l].status = 200
        /\ isDeleted["u1"]
        /\ login[k].email = "u1" /\ login[k].authed
        /\ login[k].status = 403 /\ ~login[k].granted

\* C26: without USER_SESSIONS the flow that /authorize starts by its fallback can
\* complete: a later /callback with the state that /authorize issued and a valid
\* code gets past the verifier check to the code exchange.
C26_FallbackFlowCompletes ==
    \A a, l \in Logins :
        ( /\ ~kvBound
          /\ a < l
          /\ login[a].route = "authorize" /\ login[a].issued
          /\ login[l].route = "callback" /\ login[l].state = login[a].state
          /\ login[l].code = "valid"
          /\ login[l].pc = "done" ) =>
            login[l].exchanged

\* The keys a cache holds.
KeySet(c) == {c[n].key : n \in 1..Len(c)}

\* C31 (SpecCache): eviction happens only on set of a key that is not in the cache
\* while the cache is at capacity.  Every get, hit or miss, and every set of a key
\* already present leave the set of cached keys and the size unchanged; a get
\* reports a hit exactly when the key is present, and a miss is an answer, not a
\* failure.
C31_EvictionOnlyOnNewKeyAtCapacity ==
    [][ /\ lastOp'.op \in {"get", "set"}
        /\ lastOp'.op = "get" =>
               /\ KeySet(cache') = KeySet(cache) /\ Len(cache') = Len(cache)
               /\ lastOp'.hit <=> has(cache, lastOp'.key)
        /\ (lastOp'.op = "set" /\ has(cache, lastOp'.key)) =>
               KeySet(cache') = KeySet(cache) /\ Len(cache') = Len(cache)
        /\ KeySet(cache) \ KeySet(cache') # {} =>
               /\ lastOp'.op = "set"
               /\ ~has(cache, lastOp'.key)
               /\ Len(cache) >= maxSize ]_vars

\* A key the full cache already held has just been set again, and the cache is
\* still full.
C31_Witness ==
    /\ lastOp.op = "set" /\ lastOp.hit /\ lastOp.full
    /\ maxSize >= 2
    /\ Len(cache) = maxSize

\* C32 (SpecCache): each eviction removes exactly one entry; that entry has the
\* smallest lastAccessed of all entries, and among the entries that share the
\* smallest it is the first in the Map's iteration order.
C32_EvictsFirstOldest ==
    [][ KeySet(cache) \ KeySet(cache') # {} =>
            \E n \in 1..Len(cache) :
                /\ KeySet(cache) \ KeySet(cache') = {cache[n].key}
                /\ \A m \in 1..Len(cache) : cache[m].lastAccessed >= cache[n].lastAccessed
                /\ \A m \in 1..(n - 1) : cache[m].lastAccessed > cache[n].lastAccessed
                /\ Len(cache') = Len(cache) ]_vars

\* A full cache of two or more entries, all stamped with the same reading, has had
\* an entry evicted for a new key.
C32_Witness ==
    /\ lastOp.op = "set" /\ ~lastOp.hit /\ lastOp.full
    /\ maxSize >= 2
    /\ now = 0
    /\ Cardinality(everSet) = maxSize + 1

\* C33 (SpecApiKey): getOrCreateServer never fails for lack of an entry.  On a hit
\* it returns the cached server, builds none and leaves the key set unchanged; on
\* a miss it builds exactly one server and on return the cache maps the user to
\* it.  So while a user stays cached, every call returns the same server.
C33_HitReturnsCachedMissCachesNew ==
    [][\A i \in Invs :
           (http'[i].found /\ ~http[i].found) =>
               /\ http'[i].touched
               /\ has(cache', userId[i])
               /\ valueOf(cache', userId[i]) = http'[i].server
               /\ http'[i].hit <=> has(cache, userId[i])
               /\ http'[i].hit =>
                      /\ http'[i].server = valueOf(cache, userId[i])
                      /\ http'[i].server # i
                      /\ KeySet(cache') = KeySet(cache)
               /\ ~http'[i].hit => http'[i].server = i]_vars

\* A request was served by the server that an earlier request of the same user
\* built, and that server is still the cached one.
C33_Witness ==
    \E i, j \in Invs :
        /\ i # j /\ userId[i] = userId[j]
        /\ http[j].touched /\ ~http[j].hit /\ http[j].server = j
        /\ http[i].touched /\ http[i].hit /\ http[i].server = j
        /\ has(cache, userId[i]) /\ valueOf(cache, userId[i]) = j

\* C34 (SpecApiKey): under any interleaving of requests at their awaits the cache
\* holds at most one entry per user and at most maxSize entries; the requests of
\* one user that went through getOrCreateServer while the user stayed cached
\* share one server, also when they were in flight together.
C34_OneEntryPerIdentityUnderInterleaving ==
    /\ Len(cache) <= maxSize
    /\ \A n, k \in 1..Len(cache) : cache[n].key = cache[k].key => n = k
    /\ \A n \in 1..Len(cache) :
           /\ cache[n].key \in Users
           /\ cache[n].value \in Invs
           /\ userId[cache[n].value] = cache[n].key
           /\ ~http[cache[n].value].hit
    /\ maxSize >= Cardinality(Users) =>
           \A i, j \in Invs :
               (http[i].touched /\ http[j].touched /\ userId[i] = userId[j]) =>
                   http[i].server = http[j].server

\* Two requests of one user are in flight together past getOrCreateServer: one
\* built the server, the other was handed the same one, and there is one entry.
C34_Witness ==
    \E i, j \in Invs :
        /\ i # j /\ userId[i] = userId[j]
        /\ pc[i] = "parsing" /\ pc[j] = "parsing"
        /\ ~http[i].hit /\ http[i].server = i
        /\ http[j].hit /\ http[j].server = i
        /\ Len(cache) = 1

\* C36 (SpecLogin): with USER_SESSIONS configured, /authorize calls
\* completeAuthorization for a request that names a client only if the request
\* carries a workos_session cookie whose record exists and whose expires_at is not
\* in the past; with no cookie, no record or an expired record it answers 302 to
\* the login panel and grants nothing.
C36_AuthorizeNeedsLiveSession ==
    \A l \in Logins :
        (kvBound /\ login[l].route = "authorize" /\ login[l].state \in States) =>
            /\ login[l].granted =>
                   /\ login[l].cookie
                   /\ login[l].session.read /\ login[l].session.exists
                   /\ login[l].session.expiresAt >= now
            /\ ( /\ login[l].pc # "session"
                 /\ \/ ~login[l].cookie
                    \/ ~login[l].session.exists
                    \/ login[l].session.expiresAt < now ) =>
                   /\ login[l].pc = "done"
                   /\ login[l].status = 302 /\ login[l].body = "login"
                   /\ ~login[l].granted /\ ~login[l].authed

\* One request was granted on a session that expires at this very reading of the
\* clock; another, whose session had expired, was sent to the login panel.
C36_Witness ==
    \E l, k \in Logins :
        /\ kvBound
        /\ login[l].route = "authorize" /\ login[l].granted
        /\ login[l].session.expiresAt = now
        /\ login[k].route = "authorize" /\ login[k].session.exists
        /\ login[k].session.expiresAt < now
        /\ login[k].status = 302

C37_OneOutcomePerRequest ==
    rpc.handled # NoResponse =>
        LET b == rpc.body
            h == rpc.handled
            r == rpc.handled.response
            wellFormed == b.parse = "object" /\ b.jsonrpc = "2.0" IN
        /\ r.hasResult # r.hasError
        /\ r.hasError <=> r.code # 0
        /\ b.parse = "fails" => r.code = -32700 /\ r.id = "error"
        /\ b.parse = "object" => r.id = b.id
        /\ b.parse = "object" /\ b.jsonrpc # "2.0" => r.code = -32600
        /\ wellFormed /\ b.method \notin {"initialize", "ping", "tools/list", "tools/call"}
               => r.code = -32601 /\ h.handler = "none"
        /\ wellFormed /\ b.method \in {"initialize", "ping", "tools/list"}
               => r.hasResult /\ h.handler = b.method
        /\ wellFormed /\ b.method = "tools/call" => h.handler = "tools/call"
        /\ wellFormed /\ b.method = "tools/call" /\ b.params \in {"none", "noName"}
               => r.code = -32602
        /\ wellFormed /\ b.method = "tools/call" /\ b.params = "unknown_tool"
               => r.code = -32601
        /\ wellFormed /\ b.method = "tools/call" /\ b.params = "search_mcp_docs"
               => r.hasResult
        /\ h.executes => wellFormed /\ b.method = "tools/call" /\ b.params = "search_mcp_docs"

C37_Witness ==
    /\ rpc.body.parse = "object"
    /\ rpc.body.jsonrpc = "2.0"
    /\ rpc.body.id = "2"
    /\ rpc.body.method = "tools/call"
    /\ rpc.body.params = "unknown_tool"
    /\ rpc.handled.response = jsonRpcResponse("2", -32601)
    /\ ~rpc.handled.executes

====
